---- MODULE Spec2Model ----
(***************************************************************************)
(* The batch dispatcher of python/src/batch_encoding.py: the job records   *)
(* of JobDispatcher, main's dispatch/poll loop, _start_encodings and       *)
(* _update_encoding_job, run against a remote encoding service whose       *)
(* answers are chosen nondeterministically.                                *)
(***************************************************************************)
EXTENDS Integers, Sequences, FiniteSets, TLC

VARIABLES
    encoding_jobs,           \* JobDispatcher.encoding_jobs: the list of EncodingJob records
    pc,                      \* main's position: "while", "start", "poll", "done", "raised"
    jobs_to_start,           \* the part of the start batch _start_encodings has yet to visit
    started_jobs,            \* the part of get_started_jobs() the poll loop has yet to visit
    queued,                  \* remote service: number of encodings in status QUEUED
    calls,                   \* the remote calls issued by main's last step, in order
    cycle,                   \* the current cycle of main's loop: queued_encodings_count as
                             \* read at its top, the number of WAITING jobs when the batch
                             \* was chosen, the start calls issued and those answered
                             \* without error (all dropped at the cycle's first poll, main
                             \* reads none of them again), and the job whose start call
                             \* was answered 8004 (kept until the next batch is chosen)
    failed_log,              \* what log_failed_jobs printed (one entry per reported job)
    inputs,                  \* the process inputs ConfigProvider reads: the command-line
                             \* options, the two properties files and the environment
    configuration,           \* ConfigProvider.configuration: one dict per config source
    lookup,                  \* the last call of ConfigProvider._get_or_throw_exception:
                             \* its key and what it returned or raised
    execution,               \* an example script's calls of _execute_encoding (and of
                             \* _execute_dash_manifest, _execute_hls_manifest), one
                             \* record per call: position, last task status observed
    main_pc,                 \* an example script's main: its position
    INPUT_FORMAT,            \* hdr_conversions.py: the module's INPUT_FORMAT
    OUTPUT_FORMAT,           \* hdr_conversions.py: the module's OUTPUT_FORMAT
    rendition_definition,    \* hdr_conversions.py: the outcome of RenditionDefinition()
    start_history            \* history: per job, the number of its start calls so far that
                             \* succeeded and that failed with an error other than 8004;
                             \* <<>> where it is not recorded

\* the batch dispatcher's variables
dispatcher_vars ==
    <<encoding_jobs, pc, jobs_to_start, started_jobs, queued, calls, cycle, failed_log,
      start_history>>

\* ConfigProvider's variables
config_vars == <<inputs, configuration, lookup>>

\* the variables of the example scripts that run their encodings to the end
script_vars == <<execution, main_pc>>

\* the variables of hdr_conversions.py
hdr_vars == <<INPUT_FORMAT, OUTPUT_FORMAT, rendition_definition>>

vars == <<dispatcher_vars, config_vars, script_vars, hdr_vars>>

\* hdr_conversions.py is not running
NoRenditionDefinition ==
    /\ INPUT_FORMAT = ""
    /\ OUTPUT_FORMAT = ""
    /\ rendition_definition = <<>>

\* no ConfigProvider call is being checked
NoConfigProvider ==
    /\ inputs = <<>>
    /\ configuration = <<>>
    /\ lookup = <<>>

\* no example script of that kind is running
NoScript ==
    /\ execution = <<>>
    /\ main_pc = "none"

\* batch_encoding.py is not running
NoDispatcher ==
    /\ encoding_jobs = <<>>
    /\ pc = "none"
    /\ jobs_to_start = <<>>
    /\ started_jobs = <<>>
    /\ queued = 0
    /\ calls = <<>>
    /\ cycle = <<>>
    /\ failed_log = <<>>
    /\ start_history = <<>>

----------------------------------------------------------------------------
(* Program constants *)

target_queue_size == 3

max_retries == 2

number_of_encodings == 7

QueueLimitExceeded == 8004

\* EncodingJob.encoding_id before the remote encoding exists (the empty string)
EmptyId == 0

(* Bounds of the model *)

\* the dispatcher is run on the first MaxJobs jobs of its list
MaxJobs == 3

\* limits tried on get_jobs_to_start
MaxLimit == 4

\* the fair runs with failing calls are checked on the first FairJobs jobs
FairJobs == 2

\* an execution polls its task's status at most MaxPolls times
MaxPolls == 3

----------------------------------------------------------------------------
(* Helpers *)

Min(a, b) == IF a < b THEN a ELSE b

Max(a, b) == IF a > b THEN a ELSE b

\* Python's s[:n]
SlicePrefix(s, n) ==
    IF n >= 0 THEN SubSeq(s, 1, Min(n, Len(s)))
    ELSE SubSeq(s, 1, Max(Len(s) + n, 0))

\* Python's range(a, b) as a sequence
Range(a, b) == [k \in 1..Max(b - a, 0) |-> a + k - 1]

----------------------------------------------------------------------------
(* EncodingJobStatus, EncodingJob, JobDispatcher *)

EncodingJobStatus == {"WAITING", "STARTED", "SUCCESSFUL", "GIVEN_UP"}

EncodingJob(i) ==
    [encoding_name  |-> i,
     status         |-> "WAITING",
     encoding_id    |-> EmptyId,
     retry_count    |-> 0,
     error_messages |-> <<>>]

\* JobDispatcher.__init__ in full: one job per i in range(1, number_of_encodings)
JobDispatcher_init ==
    [k \in DOMAIN Range(1, number_of_encodings) |->
        EncodingJob(Range(1, number_of_encodings)[k])]

\* JobDispatcher.__init__: one job per i in range(1, number_of_encodings)
JobDispatcher ==
    LET all == Range(1, number_of_encodings)
    IN  [k \in 1..Min(MaxJobs, Len(all)) |-> EncodingJob(all[k])]

\* the jobs of the list, by position
JobIndex == 1..Len(encoding_jobs)

\* a job list as the sequence of its positions (the model's references to its jobs)
JobList(jobs) == [k \in 1..Len(jobs) |-> k]

\* variant: the limit is ignored
get_jobs_to_start_unlimited(limit) ==
    SelectSeq(JobList(encoding_jobs), LAMBDA k : encoding_jobs[k].status = "WAITING")

\* variant: jobs that are STARTED are selected as well
get_jobs_to_start_unfinished(limit) ==
    SlicePrefix(SelectSeq(JobList(encoding_jobs),
                          LAMBDA k : encoding_jobs[k].status = "WAITING"
                                     \/ encoding_jobs[k].status = "STARTED"),
                limit)

get_jobs_to_start(limit) ==
    SlicePrefix(SelectSeq(JobList(encoding_jobs),
                          LAMBDA k : encoding_jobs[k].status = "WAITING"),
                limit)

\* variant: every job that is not WAITING is selected
get_started_jobs_not_waiting(jobs) ==
    SelectSeq(JobList(jobs), LAMBDA k : jobs[k].status # "WAITING")

\* variant: every job that has an encoding and is not finished is selected
get_started_jobs_with_encoding(jobs) ==
    SelectSeq(JobList(jobs), LAMBDA k : /\ jobs[k].encoding_id # EmptyId
                                        /\ jobs[k].status \in {"WAITING", "STARTED"})

\* get_started_jobs, on the job list as it is when the call is made
get_started_jobs(jobs) == SelectSeq(JobList(jobs), LAMBDA k : jobs[k].status = "STARTED")

\* variant: only WAITING jobs keep the loop running
all_jobs_finished_none_waiting ==
    Len(SelectSeq(JobList(encoding_jobs),
                  LAMBDA k : encoding_jobs[k].status = "WAITING")) = 0

\* variant: only STARTED jobs keep the loop running
all_jobs_finished_none_started ==
    Len(SelectSeq(JobList(encoding_jobs),
                  LAMBDA k : encoding_jobs[k].status = "STARTED")) = 0

all_jobs_finished ==
    Len(SelectSeq(JobList(encoding_jobs),
                  LAMBDA k : encoding_jobs[k].status = "WAITING"
                             \/ encoding_jobs[k].status = "STARTED")) = 0

\* log_failed_jobs: one printed line per GIVEN_UP job
log_failed_jobs ==
    SelectSeq(JobList(encoding_jobs), LAMBDA k : encoding_jobs[k].status = "GIVEN_UP")

----------------------------------------------------------------------------
(* The remote service's answers *)

\* error codes a BitmovinError carries: 8004 and some other code
ErrorCodes == {QueueLimitExceeded, QueueLimitExceeded + 1}

\* answers to encodings.start: success, or a BitmovinError with its error code
StartOk == [raised |-> FALSE, error_code |-> 0]

StartAnswers == {StartOk} \cup {[raised |-> TRUE, error_code |-> c] : c \in ErrorCodes}

\* Task.status values the status endpoint answers with
TaskStatus == {"QUEUED", "RUNNING", "FINISHED", "ERROR", "CANCELED"}

\* Task.error: absent, or present with a retry hint
TaskError == {"absent", "RETRY", "NO_RETRY"}

Tasks ==
    {[status |-> s, error |-> "absent"] : s \in TaskStatus \ {"ERROR"}}
    \cup {[status |-> "ERROR", error |-> e] : e \in TaskError}

\* variant: task.error is not tested for presence
is_retryable_error_without_detail(task) ==
    task.status = "ERROR" /\ task.error # "NO_RETRY"

\* _is_retryable_error
is_retryable_error(task) ==
    task.status = "ERROR" /\ task.error # "absent" /\ task.error # "NO_RETRY"

----------------------------------------------------------------------------
(* The effect of one start attempt and of one status poll on a job record *)

\* _start_encodings, lines 132-141: the encoding is created if the job has none
WithEncoding(job) ==
    IF job.encoding_id = EmptyId
    THEN [job EXCEPT !.encoding_id = job.encoding_name]
    ELSE job

\* _start_encodings, line 149: the start call failed with error code 8004
LimitHit(answer) == answer.raised /\ answer.error_code = QueueLimitExceeded

\* variant: error code 8004 is counted like any other start error
start_encoding_counting_limit(job, answer) ==
    IF ~answer.raised THEN [job EXCEPT !.status = "STARTED"]
    ELSE LET n == job.retry_count + 1
         IN  IF n > max_retries
             THEN [job EXCEPT !.retry_count = n,
                              !.status = "GIVEN_UP",
                              !.error_messages = Append(@, "The encoding could not be started")]
             ELSE [job EXCEPT !.retry_count = n]

\* variant: a failed start call drops the job's encoding, to be created anew
start_encoding_forgets_encoding(job, answer) ==
    IF ~answer.raised THEN [job EXCEPT !.status = "STARTED"]
    ELSE IF LimitHit(answer) THEN job
    ELSE LET n == job.retry_count + 1
         IN  IF n > max_retries
             THEN [job EXCEPT !.retry_count = n,
                              !.status = "GIVEN_UP",
                              !.error_messages = Append(@, "The encoding could not be started")]
             ELSE [job EXCEPT !.retry_count = n, !.encoding_id = EmptyId]

\* variant: the budget test is made with >= instead of >
start_encoding_gives_up_early(job, answer) ==
    IF ~answer.raised THEN [job EXCEPT !.status = "STARTED"]
    ELSE IF LimitHit(answer) THEN job
    ELSE LET n == job.retry_count + 1
         IN  IF n >= max_retries
             THEN [job EXCEPT !.retry_count = n,
                              !.status = "GIVEN_UP",
                              !.error_messages = Append(@, "The encoding could not be started")]
             ELSE [job EXCEPT !.retry_count = n]

\* _start_encodings, lines 143-161, on a job that has its encoding
start_encoding(job, answer) ==
    IF ~answer.raised THEN [job EXCEPT !.status = "STARTED"]
    ELSE IF LimitHit(answer) THEN job
    ELSE LET n == job.retry_count + 1
         IN  IF n > max_retries
             THEN [job EXCEPT !.retry_count = n,
                              !.status = "GIVEN_UP",
                              !.error_messages = Append(@, "The encoding could not be started")]
             ELSE [job EXCEPT !.retry_count = n]

\* variant: a CANCELED encoding is given up
update_encoding_job_canceled_gives_up(job, task) ==
    IF task.status = "FINISHED" THEN [job EXCEPT !.status = "SUCCESSFUL"]
    ELSE IF task.status = "ERROR"
    THEN IF ~is_retryable_error(task)
         THEN [job EXCEPT !.status = "GIVEN_UP",
                          !.error_messages = Append(@, "task errors")]
         ELSE IF job.retry_count > max_retries
         THEN [job EXCEPT !.status = "GIVEN_UP",
                          !.error_messages = Append(@, "task errors")]
         ELSE [job EXCEPT !.retry_count = @ + 1, !.status = "WAITING"]
    ELSE IF task.status = "CANCELED"
    THEN [job EXCEPT !.status = "GIVEN_UP",
                     !.error_messages = Append(@, "task errors")]
    ELSE job

\* variant: a retry is not counted
update_encoding_job_uncounted(job, task) ==
    IF task.status = "FINISHED" THEN [job EXCEPT !.status = "SUCCESSFUL"]
    ELSE IF task.status = "ERROR"
    THEN IF ~is_retryable_error(task)
         THEN [job EXCEPT !.status = "GIVEN_UP",
                          !.error_messages = Append(@, "task errors")]
         ELSE IF job.retry_count > max_retries
         THEN [job EXCEPT !.status = "GIVEN_UP",
                          !.error_messages = Append(@, "task errors")]
         ELSE [job EXCEPT !.status = "WAITING"]
    ELSE job

\* variant: the task's messages are added one by one (extend instead of append)
update_encoding_job_extending(job, task) ==
    IF task.status = "FINISHED" THEN [job EXCEPT !.status = "SUCCESSFUL"]
    ELSE IF task.status = "ERROR"
    THEN IF ~is_retryable_error(task)
         THEN [job EXCEPT !.status = "GIVEN_UP",
                          !.error_messages = @ \o <<"task error", "task error">>]
         ELSE IF job.retry_count > max_retries
         THEN [job EXCEPT !.status = "GIVEN_UP",
                          !.error_messages = @ \o <<"task error", "task error">>]
         ELSE [job EXCEPT !.retry_count = @ + 1, !.status = "WAITING"]
    ELSE job

\* _update_encoding_job
update_encoding_job(job, task) ==
    IF task.status = "FINISHED" THEN [job EXCEPT !.status = "SUCCESSFUL"]
    ELSE IF task.status = "ERROR"
    THEN IF ~is_retryable_error(task)
         THEN [job EXCEPT !.status = "GIVEN_UP",
                          !.error_messages = Append(@, "task errors")]
         ELSE IF job.retry_count > max_retries
         THEN [job EXCEPT !.status = "GIVEN_UP",
                          !.error_messages = Append(@, "task errors")]
         ELSE [job EXCEPT !.retry_count = @ + 1, !.status = "WAITING"]
    ELSE job

\* _start_encodings, lines 143-161: the start call of job k returned (line 146
\* is reached) or failed with an error that is counted (line 155 is reached);
\* the call is added to the history where the history is kept
record_start(k, answer) ==
    IF start_history = <<>> \/ LimitHit(answer) THEN start_history
    ELSE IF answer.raised THEN [start_history EXCEPT ![k].failed = @ + 1]
    ELSE [start_history EXCEPT ![k].succeeded = @ + 1]

\* variant: one slot too many
free_slots_plus_one(count) == target_queue_size - count + 1

\* main, line 90
free_slots(count) == target_queue_size - count

----------------------------------------------------------------------------
(* main *)

NoCycle ==
    [queued_encodings_count |-> 0, waiting |-> 0, attempts |-> 0, started |-> 0,
     limit_hit |-> 0]

Init ==
    /\ encoding_jobs = JobDispatcher
    /\ pc = "while"
    /\ jobs_to_start = <<>>
    /\ started_jobs = <<>>
    /\ queued = 0
    /\ calls = <<>>
    /\ cycle = NoCycle
    /\ failed_log = <<>>
    /\ start_history = <<>>
    /\ NoConfigProvider /\ NoScript /\ NoRenditionDefinition

\* main, lines 109-113: after the sleep, the poll loop runs over get_started_jobs()
EnterPoll(jobs) ==
    /\ started_jobs' = get_started_jobs(jobs)
    /\ pc' = IF get_started_jobs(jobs) = <<>> THEN "while" ELSE "poll"

\* main, lines 88 and 115-116: the loop ends, the failed jobs are logged
Finish ==
    /\ pc = "while"
    /\ all_jobs_finished
    /\ pc' = "done"
    /\ failed_log' = log_failed_jobs
    /\ calls' = <<>>
    /\ UNCHANGED <<encoding_jobs, jobs_to_start, started_jobs, queued, cycle>>
    /\ UNCHANGED <<start_history, config_vars, script_vars, hdr_vars>>

\* main, lines 88-107: the queue depth is read and the start batch is chosen
CountQueued ==
    /\ pc = "while"
    /\ ~all_jobs_finished
    /\ calls' = <<[op |-> "list", id |-> EmptyId]>>
    /\ LET batch == IF free_slots(queued) > 0
                    THEN get_jobs_to_start(free_slots(queued))
                    ELSE <<>>
       IN  /\ jobs_to_start' = batch
           /\ cycle' = [NoCycle EXCEPT
                            !.queued_encodings_count = queued,
                            !.waiting = Len(get_jobs_to_start(Len(encoding_jobs)))]
           /\ IF Len(batch) > 0
              THEN pc' = "start" /\ started_jobs' = <<>>
              ELSE EnterPoll(encoding_jobs)
    /\ UNCHANGED <<encoding_jobs, queued, failed_log>>
    /\ UNCHANGED <<start_history, config_vars, script_vars, hdr_vars>>

\* _count_queued_encodings raises: the error leaves main
CountQueuedRaises ==
    /\ pc = "while"
    /\ ~all_jobs_finished
    /\ calls' = <<[op |-> "list", id |-> EmptyId]>>
    /\ pc' = "raised"
    /\ UNCHANGED <<encoding_jobs, jobs_to_start, started_jobs, queued, cycle, failed_log>>
    /\ UNCHANGED <<start_history, config_vars, script_vars, hdr_vars>>

\* the create call(s) the step makes for job k
CreateCalls(k) ==
    IF encoding_jobs[k].encoding_id = EmptyId
    THEN <<[op |-> "create", id |-> encoding_jobs[k].encoding_name]>>
    ELSE <<>>

\* variant: error code 8004 skips the job and the loop goes on (continue for return)
StartEncodingGoesOn(answer) ==
    /\ pc = "start"
    /\ LET k    == Head(jobs_to_start)
           job  == WithEncoding(encoding_jobs[k])
           jobs == [encoding_jobs EXCEPT ![k] = start_encoding(job, answer)]
       IN  /\ encoding_jobs' = jobs
           /\ calls' = CreateCalls(k) \o <<[op |-> "start", id |-> job.encoding_id]>>
           /\ queued' = IF answer.raised THEN queued ELSE queued + 1
           /\ cycle' = [cycle EXCEPT !.attempts = @ + 1,
                                     !.started = IF answer.raised THEN @ ELSE @ + 1,
                                     !.limit_hit = IF LimitHit(answer) THEN k ELSE @]
           /\ IF Tail(jobs_to_start) = <<>>
              THEN jobs_to_start' = <<>> /\ EnterPoll(jobs)
              ELSE jobs_to_start' = Tail(jobs_to_start) /\ pc' = "start"
                   /\ started_jobs' = started_jobs
    /\ UNCHANGED failed_log
    /\ start_history' = record_start(Head(jobs_to_start), answer)
    /\ UNCHANGED <<config_vars, script_vars, hdr_vars>>

\* variant: any failed start call ends the batch, as error code 8004 does
StartEncodingEndsBatch(answer) ==
    /\ pc = "start"
    /\ LET k    == Head(jobs_to_start)
           job  == WithEncoding(encoding_jobs[k])
           jobs == [encoding_jobs EXCEPT ![k] = start_encoding(job, answer)]
       IN  /\ encoding_jobs' = jobs
           /\ calls' = CreateCalls(k) \o <<[op |-> "start", id |-> job.encoding_id]>>
           /\ queued' = IF answer.raised THEN queued ELSE queued + 1
           /\ cycle' = [cycle EXCEPT !.attempts = @ + 1,
                                     !.started = IF answer.raised THEN @ ELSE @ + 1,
                                     !.limit_hit = IF LimitHit(answer) THEN k ELSE @]
           /\ IF answer.raised \/ Tail(jobs_to_start) = <<>>
              THEN jobs_to_start' = <<>> /\ EnterPoll(jobs)
              ELSE jobs_to_start' = Tail(jobs_to_start) /\ pc' = "start"
                   /\ started_jobs' = started_jobs
    /\ UNCHANGED failed_log
    /\ start_history' = record_start(Head(jobs_to_start), answer)
    /\ UNCHANGED <<config_vars, script_vars, hdr_vars>>

\* _start_encodings: one iteration of its loop, the start call answered by `answer`
StartEncoding(answer) ==
    /\ pc = "start"
    /\ LET k    == Head(jobs_to_start)
           job  == WithEncoding(encoding_jobs[k])
           jobs == [encoding_jobs EXCEPT ![k] = start_encoding(job, answer)]
       IN  /\ encoding_jobs' = jobs
           /\ calls' = CreateCalls(k) \o <<[op |-> "start", id |-> job.encoding_id]>>
           /\ queued' = IF answer.raised THEN queued ELSE queued + 1
           /\ cycle' = [cycle EXCEPT !.attempts = @ + 1,
                                     !.started = IF answer.raised THEN @ ELSE @ + 1,
                                     !.limit_hit = IF LimitHit(answer) THEN k ELSE @]
           /\ IF LimitHit(answer) \/ Tail(jobs_to_start) = <<>>
              THEN jobs_to_start' = <<>> /\ EnterPoll(jobs)
              ELSE jobs_to_start' = Tail(jobs_to_start) /\ pc' = "start"
                   /\ started_jobs' = started_jobs
    /\ UNCHANGED failed_log
    /\ start_history' = record_start(Head(jobs_to_start), answer)
    /\ UNCHANGED <<config_vars, script_vars, hdr_vars>>

\* variant: the encoding is created inside the try block of the start call, an
\* error counts as a failed start
CreateRaisesCounted ==
    /\ pc = "start"
    /\ encoding_jobs[Head(jobs_to_start)].encoding_id = EmptyId
    /\ calls' = CreateCalls(Head(jobs_to_start))
    /\ pc' = "raised"
    /\ encoding_jobs' = [encoding_jobs EXCEPT ![Head(jobs_to_start)].retry_count = @ + 1]
    /\ UNCHANGED <<jobs_to_start, started_jobs, queued, cycle, failed_log>>
    /\ UNCHANGED <<start_history, config_vars, script_vars, hdr_vars>>

\* _create_and_configure_encoding raises: the error leaves main, the job keeps no id
CreateRaises ==
    /\ pc = "start"
    /\ encoding_jobs[Head(jobs_to_start)].encoding_id = EmptyId
    /\ calls' = CreateCalls(Head(jobs_to_start))
    /\ pc' = "raised"
    /\ UNCHANGED <<encoding_jobs, jobs_to_start, started_jobs, queued, cycle, failed_log>>
    /\ UNCHANGED <<start_history, config_vars, script_vars, hdr_vars>>

\* main, lines 111-113: one iteration of the poll loop, the status call answered by `task`
UpdateEncodingJob(task) ==
    /\ pc = "poll"
    /\ LET k == Head(started_jobs)
       IN  /\ encoding_jobs' = [encoding_jobs EXCEPT ![k] = update_encoding_job(@, task)]
           /\ calls' = <<[op |-> "status", id |-> encoding_jobs[k].encoding_id]>>
    /\ started_jobs' = Tail(started_jobs)
    /\ pc' = IF Tail(started_jobs) = <<>> THEN "while" ELSE "poll"
    /\ cycle' = [NoCycle EXCEPT !.limit_hit = cycle.limit_hit]
    /\ UNCHANGED <<jobs_to_start, queued, failed_log>>
    /\ UNCHANGED <<start_history, config_vars, script_vars, hdr_vars>>

\* encodings.status raises: the error leaves main
StatusRaises ==
    /\ pc = "poll"
    /\ calls' = <<[op |-> "status", id |-> encoding_jobs[Head(started_jobs)].encoding_id]>>
    /\ pc' = "raised"
    /\ UNCHANGED <<encoding_jobs, jobs_to_start, started_jobs, queued, cycle, failed_log>>
    /\ UNCHANGED <<start_history, config_vars, script_vars, hdr_vars>>

\* the remote service takes an encoding out of its queue
Dequeue ==
    /\ queued > 0
    /\ queued' = queued - 1
    /\ UNCHANGED <<encoding_jobs, pc, jobs_to_start, started_jobs, calls, cycle, failed_log>>
    /\ UNCHANGED <<start_history, config_vars, script_vars, hdr_vars>>

Start == \E answer \in StartAnswers : StartEncoding(answer)

Poll == \E task \in Tasks : UpdateEncodingJob(task)

Next ==
    \/ Finish
    \/ CountQueued
    \/ CountQueuedRaises
    \/ Start
    \/ CreateRaises
    \/ Poll
    \/ StatusRaises
    \/ Dequeue

Spec == Init /\ [][Next]_vars

----------------------------------------------------------------------------
(* The dispatcher under fair scheduling.  main is a sequential program that   *)
(* keeps running, so each of its steps is weakly fair; what the service      *)
(* eventually answers is a strong fairness condition on the answers.         *)

\* the poll of job k, answered by one of `tasks`
PollAnswers(k, tasks) ==
    /\ pc = "poll"
    /\ Head(started_jobs) = k
    /\ \E task \in tasks : UpdateEncodingJob(task)

FinishedTasks == {task \in Tasks : task.status = "FINISHED"}

EndedTasks == {task \in Tasks : task.status \in {"FINISHED", "ERROR"}}

NoErrorTasks == {task \in Tasks : task.status # "ERROR"}

StartNoError == StartEncoding(StartOk)

PollNoError == \E task \in NoErrorTasks : UpdateEncodingJob(task)

\* no call raises, no start call fails, no encoding fails
NextNoError ==
    \/ Finish
    \/ CountQueued
    \/ StartNoError
    \/ PollNoError
    \/ Dequeue

\* every started encoding eventually reports FINISHED
SpecNoError ==
    /\ Init
    /\ [][NextNoError]_vars
    /\ WF_vars(Finish)
    /\ WF_vars(CountQueued)
    /\ WF_vars(StartNoError)
    /\ WF_vars(PollNoError)
    /\ \A k \in DOMAIN JobDispatcher : SF_vars(PollAnswers(k, FinishedTasks))

\* a start call answered with anything but error code 8004
StartNotLimited == \E answer \in StartAnswers : ~LimitHit(answer) /\ StartEncoding(answer)

\* the queue depth and the status of a started encoding are always answered
NextFair ==
    \/ Finish
    \/ CountQueued
    \/ Start
    \/ CreateRaises
    \/ Poll
    \/ Dequeue

\* Init, with the job list cut to its first FairJobs jobs
InitFair ==
    /\ encoding_jobs = SubSeq(JobDispatcher, 1, Min(FairJobs, Len(JobDispatcher)))
    /\ pc = "while"
    /\ jobs_to_start = <<>>
    /\ started_jobs = <<>>
    /\ queued = 0
    /\ calls = <<>>
    /\ cycle = NoCycle
    /\ failed_log = <<>>
    /\ start_history = <<>>
    /\ NoConfigProvider /\ NoScript /\ NoRenditionDefinition

\* start calls are not answered 8004 forever, and every started encoding
\* eventually reports FINISHED or ERROR
SpecFair ==
    /\ InitFair
    /\ [][NextFair]_vars
    /\ WF_vars(Finish)
    /\ WF_vars(CountQueued)
    /\ WF_vars(Start)
    /\ WF_vars(Poll)
    /\ SF_vars(StartNotLimited)
    /\ \A k \in DOMAIN JobDispatcher : SF_vars(PollAnswers(k, EndedTasks))

----------------------------------------------------------------------------
(* The dispatcher when the service answers every call without raising,      *)
(* every start call succeeds and every failed encoding is retryable.        *)

RetryableTasks ==
    {task \in Tasks : task.status # "FINISHED" /\ (task.status = "ERROR" => task.error = "RETRY")}

PollRetryable == \E task \in RetryableTasks : UpdateEncodingJob(task)

NextRetryable ==
    \/ Finish
    \/ CountQueued
    \/ StartNoError
    \/ PollRetryable
    \/ Dequeue

SpecRetryable == Init /\ [][NextRetryable]_vars

----------------------------------------------------------------------------
(* The dispatcher with the start calls of each job counted.  The job         *)
(* list is cut to its first FairJobs jobs.                                   *)

InitStartFailures ==
    /\ encoding_jobs = SubSeq(JobDispatcher, 1, Min(FairJobs, Len(JobDispatcher)))
    /\ pc = "while"
    /\ jobs_to_start = <<>>
    /\ started_jobs = <<>>
    /\ queued = 0
    /\ calls = <<>>
    /\ cycle = NoCycle
    /\ failed_log = <<>>
    /\ start_history = [k \in 1..Min(FairJobs, Len(JobDispatcher)) |->
                            [succeeded |-> 0, failed |-> 0]]
    /\ NoConfigProvider /\ NoScript /\ NoRenditionDefinition

SpecStartFailures == InitStartFailures /\ [][Next]_vars

----------------------------------------------------------------------------
(* The dispatcher when the encoding of the first job, once started, never    *)
(* reports FINISHED or ERROR.  The job list is cut to its first FairJobs     *)
(* jobs.                                                                     *)

PendingTasks == {task \in Tasks : task.status \notin {"FINISHED", "ERROR"}}

\* a status poll, answered with a pending status if it is the first job's
PollFirstPending ==
    /\ pc = "poll"
    /\ \E task \in Tasks :
          /\ Head(started_jobs) = 1 => task \in PendingTasks
          /\ UpdateEncodingJob(task)

NextFirstPending ==
    \/ Finish
    \/ CountQueued
    \/ CountQueuedRaises
    \/ Start
    \/ CreateRaises
    \/ PollFirstPending
    \/ StatusRaises
    \/ Dequeue

SpecFirstPending == InitFair /\ [][NextFirstPending]_vars

----------------------------------------------------------------------------
(* The dispatcher on the whole job list of JobDispatcher.__init__, when no   *)
(* call raises, no start call fails and no encoding fails.                   *)

InitAllJobs ==
    /\ encoding_jobs = JobDispatcher_init
    /\ pc = "while"
    /\ jobs_to_start = <<>>
    /\ started_jobs = <<>>
    /\ queued = 0
    /\ calls = <<>>
    /\ cycle = NoCycle
    /\ failed_log = <<>>
    /\ start_history = <<>>
    /\ NoConfigProvider /\ NoScript /\ NoRenditionDefinition

SpecAllJobs == InitAllJobs /\ [][NextNoError]_vars

----------------------------------------------------------------------------
(* ConfigProvider (python/common/config_provider.py): a Python dict is a     *)
(* function from the keys it holds; a value is a string, "" the empty one.   *)

\* the names of the config sources, in the order __init__ inserts them
ConfigSources ==
    <<"Command line arguments", "Local properties file",
      "Environment variables", "System-wide properties file">>

\* the keys of ConfigProvider._properties (one of them stands for all)
Properties == {"S3_OUTPUT_BASE_PATH"}

\* the keys the getters ask for: one that _properties lists, one that it does not
ConfigKeys == Properties \cup {"HTTP_INPUT_AUDIO_FILE_PATH"}

\* the values source number i can hold: the empty string, or a value of its own
ConfigValues(i) == {"", <<"cli", "local", "env", "home">>[i]}

\* the dicts with keys among `keys` and values among `values`
Dicts(keys, values) == UNION {[K -> values] : K \in SUBSET keys}

\* a properties file: missing, or holding `key=value` lines
PropertiesFiles(i) ==
    {[exists |-> FALSE, items |-> <<>>]}
    \cup {[exists |-> TRUE, items |-> d] : d \in Dicts(ConfigKeys, ConfigValues(i))}

\* the process inputs: the options given on the command line (optparse knows the
\* keys of _properties only), ./examples.properties, the environment and
\* ~/.bitmovin/examples.properties
Inputs ==
    [argv       : Dicts(Properties, ConfigValues(1)),
     local_file : PropertiesFiles(2),
     environ    : Dicts(ConfigKeys, ConfigValues(3)),
     home_file  : PropertiesFiles(4)]

get_dict_with_set_values(dictionary) ==
    [k \in {k \in DOMAIN dictionary : dictionary[k] # ""} |-> dictionary[k]]

\* optparse yields None for an option that was not given: modelled as "", which the
\* filter drops just as it drops None; with no argument at all the dict is empty
parse_cli_arguments(argv) ==
    IF DOMAIN argv = {} THEN <<>>
    ELSE get_dict_with_set_values(
             [k \in Properties |-> IF k \in DOMAIN argv THEN argv[k] ELSE ""])

\* a missing file (FileNotFoundError) gives the empty dict
parse_properties_file(file) ==
    IF ~file.exists THEN <<>> ELSE get_dict_with_set_values(file.items)

\* ConfigProvider.__init__: self.configuration, in insertion order
ConfigProvider_init(in) ==
    <<[name |-> ConfigSources[1], sub_config |-> parse_cli_arguments(in.argv)],
      [name |-> ConfigSources[2], sub_config |-> parse_properties_file(in.local_file)],
      [name |-> ConfigSources[3], sub_config |-> in.environ],
      [name |-> ConfigSources[4], sub_config |-> parse_properties_file(in.home_file)]>>

\* _get_or_throw_exception, the loop from its i-th iteration on: the position of
\* the first sub_config that holds key (0: none does)
RECURSIVE first_holding(_, _, _)
first_holding(config, key, i) ==
    IF i > Len(config) THEN 0
    ELSE IF key \in DOMAIN config[i].sub_config THEN i
    ELSE first_holding(config, key, i + 1)

NoLookup == [key |-> "", raised |-> "", value |-> "", source |-> "", description |-> ""]

\* _get_or_throw_exception: the value returned and the source it came from, or
\* the MissingArgumentError raised with the key and its description
get_or_throw_exception(config, key) ==
    LET i == first_holding(config, key, 1)
    IN  IF i # 0
        THEN [NoLookup EXCEPT !.key = key,
                              !.value = config[i].sub_config[key],
                              !.source = config[i].name]
        ELSE [NoLookup EXCEPT !.key = key,
                              !.raised = "MissingArgumentError",
                              !.description = IF key \in Properties
                                              THEN "description"
                                              ELSE "Configuration Parameter"]

\* a ConfigProvider has been constructed from the process inputs
InitConfig ==
    /\ inputs \in Inputs
    /\ configuration = ConfigProvider_init(inputs)
    /\ lookup = NoLookup
    /\ NoDispatcher /\ NoScript /\ NoRenditionDefinition

\* a getter calls _get_or_throw_exception(key)
GetOrThrowException(key) ==
    /\ lookup' = get_or_throw_exception(configuration, key)
    /\ UNCHANGED <<inputs, configuration, dispatcher_vars, script_vars, hdr_vars>>

NextConfig == \E key \in ConfigKeys : GetOrThrowException(key)

SpecConfig == InitConfig /\ [][NextConfig]_vars

----------------------------------------------------------------------------
(* The example scripts that run an encoding to its end: _execute_encoding of  *)
(* fixed_bitrate_ladder.py, per_title_encoding.py and                        *)
(* multi_codec_encoding.py, and the latter's _execute_dash_manifest and      *)
(* _execute_hls_manifest, which have the same shape.  An execution's pc:     *)
(* "idle" (not called yet), "start", "sleep", "status", "log", "raise",      *)
(* and, once ended, "returned", "raised" (its own raise statement) or        *)
(* "api_error" (the start or status call raised, the error leaves it).       *)

\* multi_codec_encoding.main: the encodings handed to the worker pool
Encodings == {"h264_and_aac", "h265_and_ac3", "vp9_and_vorbis"}

\* multi_codec_encoding.main: the manifests executed after the pool
Manifests == {"dash", "hls"}

\* the scripts whose main calls _execute_encoding once, as its last statement
SingleScripts == {"fixed_bitrate_ladder", "per_title_encoding"}

NotCalled ==
    [pc |-> "idle", task |-> "none", starts |-> 0, sleeps |-> 0, polls |-> 0,
     logged |-> FALSE]

Called == [NotCalled EXCEPT !.pc = "start"]

\* the call of execution e has ended, by return or by exception
Ended(e) == execution[e].pc \in {"returned", "raised", "api_error"}

\* the thread that runs execution e is at work on it: the pool's workers while
\* main is in its with block, main itself for a manifest or a single encoding
Runs(e) ==
    IF e \in Manifests THEN main_pc = e ELSE main_pc \in {"execute", "pool"}

\* variant: the loop also ends on CANCELED, which is taken for success
after_status_canceled_ends(status) ==
    IF status = "FINISHED" \/ status = "CANCELED" THEN "returned"
    ELSE IF status = "ERROR" THEN "log"
    ELSE "sleep"

\* _execute_encoding after a status call: the loop test and the test for ERROR
after_status(status) ==
    IF status = "FINISHED" THEN "returned"
    ELSE IF status = "ERROR" THEN "log"
    ELSE "sleep"

\* the start call, answered without error
ExecuteStart(e) ==
    /\ Runs(e) /\ execution[e].pc = "start"
    /\ execution' = [execution EXCEPT ![e].pc = "sleep", ![e].starts = @ + 1]
    /\ UNCHANGED <<main_pc, dispatcher_vars, config_vars, hdr_vars>>

\* the start call raises
ExecuteStartRaises(e) ==
    /\ Runs(e) /\ execution[e].pc = "start"
    /\ execution' = [execution EXCEPT ![e].pc = "api_error", ![e].starts = @ + 1]
    /\ UNCHANGED <<main_pc, dispatcher_vars, config_vars, hdr_vars>>

\* _wait_for_encoding_to_finish / _get_encoding_status: time.sleep(5)
WaitSleep(e) ==
    /\ Runs(e) /\ execution[e].pc = "sleep"
    /\ execution[e].polls < MaxPolls
    /\ execution' = [execution EXCEPT ![e].pc = "status", ![e].sleeps = @ + 1]
    /\ UNCHANGED <<main_pc, dispatcher_vars, config_vars, hdr_vars>>

\* the status call answered by `task`, then the loop test
WaitStatus(e, task) ==
    /\ Runs(e) /\ execution[e].pc = "status"
    /\ execution' = [execution EXCEPT ![e].pc = after_status(task.status),
                                      ![e].task = task.status,
                                      ![e].polls = @ + 1]
    /\ UNCHANGED <<main_pc, dispatcher_vars, config_vars, hdr_vars>>

\* the status call raises
WaitStatusRaises(e) ==
    /\ Runs(e) /\ execution[e].pc = "status"
    /\ execution' = [execution EXCEPT ![e].pc = "api_error", ![e].polls = @ + 1]
    /\ UNCHANGED <<main_pc, dispatcher_vars, config_vars, hdr_vars>>

\* _log_task_errors(task)
LogTaskErrors(e) ==
    /\ Runs(e) /\ execution[e].pc = "log"
    /\ execution' = [execution EXCEPT ![e].pc = "raise", ![e].logged = TRUE]
    /\ UNCHANGED <<main_pc, dispatcher_vars, config_vars, hdr_vars>>

\* raise Exception("Encoding failed")
RaiseFailed(e) ==
    /\ Runs(e) /\ execution[e].pc = "raise"
    /\ execution' = [execution EXCEPT ![e].pc = "raised"]
    /\ UNCHANGED <<main_pc, dispatcher_vars, config_vars, hdr_vars>>

\* one step of one execution
Execute ==
    \E e \in DOMAIN execution :
        \/ ExecuteStart(e)
        \/ ExecuteStartRaises(e)
        \/ WaitSleep(e)
        \/ \E task \in Tasks : WaitStatus(e, task)
        \/ WaitStatusRaises(e)
        \/ LogTaskErrors(e)
        \/ RaiseFailed(e)

\* fixed_bitrate_ladder.main, per_title_encoding.main: the encoding is configured
\* and _execute_encoding is called
InitSingle ==
    /\ \E script \in SingleScripts : execution = [e \in {script} |-> Called]
    /\ main_pc = "execute"
    /\ NoDispatcher /\ NoConfigProvider /\ NoRenditionDefinition

\* _execute_encoding has ended: main returns, or the exception leaves main
ExecuteDone ==
    /\ main_pc = "execute"
    /\ \E e \in DOMAIN execution :
          /\ Ended(e)
          /\ main_pc' = IF execution[e].pc = "returned" THEN "done" ELSE "raised"
    /\ UNCHANGED <<execution, dispatcher_vars, config_vars, hdr_vars>>

NextSingle == Execute \/ ExecuteDone

SpecSingle == InitSingle /\ [][NextSingle]_vars

\* multi_codec_encoding.main, lines 127-160: the three encodings are configured
\* and executor.map has submitted one _execute_encoding call per encoding
InitMulti ==
    /\ execution = [e \in Encodings \cup Manifests |->
                       IF e \in Encodings THEN Called ELSE NotCalled]
    /\ main_pc = "pool"
    /\ NoDispatcher /\ NoConfigProvider /\ NoRenditionDefinition

\* multi_codec_encoding.main, lines 155-168: the with block ends when every
\* worker has ended; the iterator executor.map returned is never read, so what a
\* worker raised is dropped; main extends the DASH manifest and calls
\* _execute_dash_manifest
JoinPool ==
    /\ main_pc = "pool"
    /\ \A e \in Encodings : Ended(e)
    /\ main_pc' = "dash"
    /\ execution' = [execution EXCEPT !["dash"] = Called]
    /\ UNCHANGED <<dispatcher_vars, config_vars, hdr_vars>>

\* multi_codec_encoding.main, lines 168-175
DashDone ==
    /\ main_pc = "dash"
    /\ Ended("dash")
    /\ IF execution["dash"].pc = "returned"
       THEN main_pc' = "hls" /\ execution' = [execution EXCEPT !["hls"] = Called]
       ELSE main_pc' = "raised" /\ execution' = execution
    /\ UNCHANGED <<dispatcher_vars, config_vars, hdr_vars>>

\* multi_codec_encoding.main, line 175
HlsDone ==
    /\ main_pc = "hls"
    /\ Ended("hls")
    /\ main_pc' = IF execution["hls"].pc = "returned" THEN "done" ELSE "raised"
    /\ UNCHANGED <<execution, dispatcher_vars, config_vars, hdr_vars>>

NextMulti == Execute \/ JoinPool \/ DashDone \/ HlsDone

SpecMulti == InitMulti /\ [][NextMulti]_vars

----------------------------------------------------------------------------
(* hdr_conversions.py: RenditionDefinition, built from the module's          *)
(* INPUT_FORMAT and OUTPUT_FORMAT (two configuration values).                *)

\* the formats the module documentation names
HdrFormats == {"DolbyVision", "HDR10", "HLG", "SDR"}

\* the values the two configuration parameters are tried with: the four
\* formats, the same in lower case and a format the example does not know
ConfiguredFormats == HdrFormats \cup {"dolbyvision", "hdr10", "hlg", "sdr", "HDR10+"}

Rendition(height, bitrate, profile, dynamic_range_format) ==
    [height |-> height, bitrate |-> bitrate, profile |-> profile,
     dynamic_range_format |-> dynamic_range_format]

NotConstructed ==
    [constructed |-> FALSE, raised |-> "", profile |-> "", dynamic_range_format |-> "",
     needs_sdr_conversion |-> FALSE, renditions |-> <<>>]

\* RenditionDefinition.__init__, lines 130-148, reached with the three locals set
Renditions(profile, dynamic_range_format, needs_sdr_conversion) ==
    [NotConstructed EXCEPT
        !.constructed = TRUE,
        !.profile = profile,
        !.dynamic_range_format = dynamic_range_format,
        !.needs_sdr_conversion = needs_sdr_conversion,
        !.renditions =
            <<Rendition(360, 160000, profile, dynamic_range_format),
              Rendition(540, 730000, profile, dynamic_range_format),
              Rendition(720, 2900000, profile, dynamic_range_format),
              Rendition(1080, 5400000, profile, dynamic_range_format),
              Rendition(1440, 9700000, profile, dynamic_range_format),
              Rendition(2160, 13900000, profile, dynamic_range_format)>>
            \o (IF needs_sdr_conversion
                THEN <<Rendition(360, 145000, "MAIN", "SDR"),
                       Rendition(540, 600000, "MAIN", "SDR"),
                       Rendition(720, 2400000, "MAIN", "SDR"),
                       Rendition(1080, 4500000, "MAIN", "SDR")>>
                ELSE <<>>)]

OutputNotSupported ==
    [NotConstructed EXCEPT !.constructed = TRUE,
                           !.raised = "the dynamic range format is not supported"]

InputNotSupported ==
    [NotConstructed EXCEPT !.constructed = TRUE,
                           !.raised = "the input format is not supported"]

\* variant: the branch for SDR input lacks the SDR output case
RenditionDefinition_init_sdr_converted(input_format, output_format) ==
    IF input_format = "DolbyVision"
    THEN IF output_format = "DolbyVision" THEN Renditions("MAIN10", "DOLBY_VISION", TRUE)
         ELSE IF output_format = "HDR10" THEN Renditions("MAIN10", "HDR10", TRUE)
         ELSE OutputNotSupported
    ELSE IF input_format = "HDR10"
    THEN IF output_format = "HDR10" THEN Renditions("MAIN10", "HDR10", TRUE)
         ELSE IF output_format = "HLG" THEN Renditions("MAIN10", "HLG", TRUE)
         ELSE OutputNotSupported
    ELSE IF input_format = "HLG"
    THEN IF output_format = "HLG" THEN Renditions("MAIN10", "HLG", TRUE)
         ELSE IF output_format = "HDR10" THEN Renditions("MAIN10", "HDR10", TRUE)
         ELSE OutputNotSupported
    ELSE IF input_format = "SDR"
    THEN IF output_format = "HDR10" THEN Renditions("MAIN10", "HDR10", TRUE)
         ELSE IF output_format = "HLG" THEN Renditions("MAIN10", "HLG", TRUE)
         ELSE OutputNotSupported
    ELSE InputNotSupported

\* RenditionDefinition.__init__
RenditionDefinition_init(input_format, output_format) ==
    IF input_format = "DolbyVision"
    THEN IF output_format = "DolbyVision" THEN Renditions("MAIN10", "DOLBY_VISION", TRUE)
         ELSE IF output_format = "HDR10" THEN Renditions("MAIN10", "HDR10", TRUE)
         ELSE OutputNotSupported
    ELSE IF input_format = "HDR10"
    THEN IF output_format = "HDR10" THEN Renditions("MAIN10", "HDR10", TRUE)
         ELSE IF output_format = "HLG" THEN Renditions("MAIN10", "HLG", TRUE)
         ELSE OutputNotSupported
    ELSE IF input_format = "HLG"
    THEN IF output_format = "HLG" THEN Renditions("MAIN10", "HLG", TRUE)
         ELSE IF output_format = "HDR10" THEN Renditions("MAIN10", "HDR10", TRUE)
         ELSE OutputNotSupported
    ELSE IF input_format = "SDR"
    THEN IF output_format = "HDR10" THEN Renditions("MAIN10", "HDR10", TRUE)
         ELSE IF output_format = "HLG" THEN Renditions("MAIN10", "HLG", TRUE)
         ELSE IF output_format = "SDR" THEN Renditions("MAIN", "SDR", FALSE)
         ELSE OutputNotSupported
    ELSE InputNotSupported

\* the module has read its two formats from the configuration
InitHdr ==
    /\ INPUT_FORMAT \in ConfiguredFormats
    /\ OUTPUT_FORMAT \in ConfiguredFormats
    /\ rendition_definition = NotConstructed
    /\ NoDispatcher /\ NoConfigProvider /\ NoScript

\* RenditionDefinition() is called
ConstructRenditionDefinition ==
    /\ ~rendition_definition.constructed
    /\ rendition_definition' = RenditionDefinition_init(INPUT_FORMAT, OUTPUT_FORMAT)
    /\ UNCHANGED <<INPUT_FORMAT, OUTPUT_FORMAT, dispatcher_vars, config_vars, script_vars>>

NextHdr == ConstructRenditionDefinition

SpecHdr == InitHdr /\ [][NextHdr]_vars

----------------------------------------------------------------------------
(* rtmp_live_encoding.py: main from the start of the live encoding on, and   *)
(* _wait_until_encoding_is_in_state.  `execution` holds one record per call  *)
(* of _wait_until_encoding_is_in_state, named by its expected_status; the    *)
(* field `starts` counts the remote call main makes right before the call    *)
(* (live.start, live.stop), `sleeps` is the local `attempt`.                 *)

max_minutes_to_wait_for_encoding_status == 5

check_interval_in_seconds == 5

\* _wait_until_encoding_is_in_state, line 150
max_attempts == max_minutes_to_wait_for_encoding_status * (60 \div check_interval_in_seconds)

\* the expected_status of the two calls main makes
ExpectedStatus == {"RUNNING", "FINISHED"}

\* main's position while it is in the call that expects status e
WaitsFor(e) == IF e = "RUNNING" THEN "wait_running" ELSE "wait_finished"

\* variant: the loop runs while attempt <= max_attempts
loop_test_inclusive(attempt) == IF attempt <= max_attempts THEN "status" ELSE "timeout"

\* line 153: while attempt < max_attempts, else the raise of line 168
loop_test(attempt) == IF attempt < max_attempts THEN "status" ELSE "timeout"

\* lines 155-159: the two tests on the task of a status call
after_live_status(expected_status, status) ==
    IF status = expected_status THEN "returned"
    ELSE IF status = "ERROR" THEN "log"
    ELSE "sleep"

\* the call that expects e has ended, by return or by exception
LiveEnded(e) == execution[e].pc \in {"returned", "raised", "timed_out", "api_error"}

InitLive ==
    /\ execution = [e \in ExpectedStatus |-> NotCalled]
    /\ main_pc = "start_live"
    /\ NoDispatcher /\ NoConfigProvider /\ NoRenditionDefinition

\* _start_live_encoding_and_wait_until_running: live.start, then the call that
\* expects RUNNING begins with attempt = 0
LiveStart ==
    /\ main_pc = "start_live"
    /\ execution' = [execution EXCEPT !["RUNNING"].starts = @ + 1,
                                      !["RUNNING"].pc = loop_test(0)]
    /\ main_pc' = "wait_running"
    /\ UNCHANGED <<dispatcher_vars, config_vars, hdr_vars>>

\* live.start raises
LiveStartRaises ==
    /\ main_pc = "start_live"
    /\ execution' = [execution EXCEPT !["RUNNING"].starts = @ + 1]
    /\ main_pc' = "raised"
    /\ UNCHANGED <<dispatcher_vars, config_vars, hdr_vars>>

\* lines 154-159: the status call answered by `task`, then the two tests
LiveStatus(e, task) ==
    /\ main_pc = WaitsFor(e) /\ execution[e].pc = "status"
    /\ execution' = [execution EXCEPT ![e].pc = after_live_status(e, task.status),
                                      ![e].task = task.status,
                                      ![e].polls = @ + 1]
    /\ UNCHANGED <<main_pc, dispatcher_vars, config_vars, hdr_vars>>

\* line 154: the status call raises, the error leaves main
LiveStatusRaises(e) ==
    /\ main_pc = WaitsFor(e) /\ execution[e].pc = "status"
    /\ execution' = [execution EXCEPT ![e].pc = "api_error", ![e].polls = @ + 1]
    /\ main_pc' = "raised"
    /\ UNCHANGED <<dispatcher_vars, config_vars, hdr_vars>>

\* line 158: _log_task_errors(task)
LiveLogTaskErrors(e) ==
    /\ main_pc = WaitsFor(e) /\ execution[e].pc = "log"
    /\ execution' = [execution EXCEPT ![e].pc = "raise", ![e].logged = TRUE]
    /\ UNCHANGED <<main_pc, dispatcher_vars, config_vars, hdr_vars>>

\* line 159: raise Exception("Encoding failed"), which leaves main
LiveRaiseFailed(e) ==
    /\ main_pc = WaitsFor(e) /\ execution[e].pc = "raise"
    /\ execution' = [execution EXCEPT ![e].pc = "raised"]
    /\ main_pc' = "raised"
    /\ UNCHANGED <<dispatcher_vars, config_vars, hdr_vars>>

\* lines 164-166 and 153: sleep, attempt += 1, then the loop test
LiveSleep(e) ==
    /\ main_pc = WaitsFor(e) /\ execution[e].pc = "sleep"
    /\ execution' = [execution EXCEPT ![e].sleeps = @ + 1,
                                      ![e].pc = loop_test(execution[e].sleeps + 1)]
    /\ UNCHANGED <<main_pc, dispatcher_vars, config_vars, hdr_vars>>

\* lines 168-169: raise Exception("Encoding did not switch to state ..."), which
\* leaves main
LiveRaiseTimeout(e) ==
    /\ main_pc = WaitsFor(e) /\ execution[e].pc = "timeout"
    /\ execution' = [execution EXCEPT ![e].pc = "timed_out"]
    /\ main_pc' = "raised"
    /\ UNCHANGED <<dispatcher_vars, config_vars, hdr_vars>>

\* one step of the call that expects e
LiveWait(e) ==
    \/ \E task \in Tasks : LiveStatus(e, task)
    \/ LiveStatusRaises(e)
    \/ LiveLogTaskErrors(e)
    \/ LiveRaiseFailed(e)
    \/ LiveSleep(e)
    \/ LiveRaiseTimeout(e)

\* main, lines 115-117: the call that expects RUNNING has returned;
\* _wait_for_live_encoding_details returns the details
LiveDetails ==
    /\ main_pc = "wait_running" /\ execution["RUNNING"].pc = "returned"
    /\ main_pc' = "input"
    /\ UNCHANGED <<execution, dispatcher_vars, config_vars, hdr_vars>>

\* _wait_for_live_encoding_details gives up (lines 197-198)
LiveDetailsRaises ==
    /\ main_pc = "wait_running" /\ execution["RUNNING"].pc = "returned"
    /\ main_pc' = "raised"
    /\ UNCHANGED <<execution, dispatcher_vars, config_vars, hdr_vars>>

\* main, lines 127-131: Enter is pressed, live.stop, then the call that expects
\* FINISHED begins with attempt = 0
LiveStop ==
    /\ main_pc = "input"
    /\ execution' = [execution EXCEPT !["FINISHED"].starts = @ + 1,
                                      !["FINISHED"].pc = loop_test(0)]
    /\ main_pc' = "wait_finished"
    /\ UNCHANGED <<dispatcher_vars, config_vars, hdr_vars>>

\* live.stop raises
LiveStopRaises ==
    /\ main_pc = "input"
    /\ execution' = [execution EXCEPT !["FINISHED"].starts = @ + 1]
    /\ main_pc' = "raised"
    /\ UNCHANGED <<dispatcher_vars, config_vars, hdr_vars>>

\* main returns after the call that expects FINISHED
LiveDone ==
    /\ main_pc = "wait_finished" /\ execution["FINISHED"].pc = "returned"
    /\ main_pc' = "done"
    /\ UNCHANGED <<execution, dispatcher_vars, config_vars, hdr_vars>>

NextLive ==
    \/ LiveStart
    \/ LiveStartRaises
    \/ \E e \in ExpectedStatus : LiveWait(e)
    \/ LiveDetails
    \/ LiveDetailsRaises
    \/ LiveStop
    \/ LiveStopRaises
    \/ LiveDone

\* _wait_until_encoding_is_in_state is sequential code: once called, it takes
\* its next step (a remote call returns or raises)
SpecLive ==
    /\ InitLive
    /\ [][NextLive]_vars
    /\ \A e \in ExpectedStatus : WF_vars(LiveWait(e))

----------------------------------------------------------------------------
(* Properties *)

Terminal(job) == job.status \in {"SUCCESSFUL", "GIVEN_UP"}

\* main's step issues the remote call `op` for the encoding `id`
Issues(op, id) ==
    /\ ~Dequeue
    /\ \E i \in DOMAIN calls' : calls'[i] = [op |-> op, id |-> id]

\* the status changes of one step all lie in `edges`
StatusChangesWithin(edges) ==
    \A k \in JobIndex :
        encoding_jobs'[k].status # encoding_jobs[k].status
            => <<encoding_jobs[k].status, encoding_jobs'[k].status>> \in edges

ListedEdges ==
    {<<"WAITING", "STARTED">>, <<"STARTED", "SUCCESSFUL">>,
     <<"STARTED", "GIVEN_UP">>, <<"STARTED", "WAITING">>}

\* C1 as stated: every status change is WAITING -> STARTED, STARTED -> SUCCESSFUL,
\* STARTED -> GIVEN_UP or STARTED -> WAITING.
C1_OnlyListedEdges == [][StatusChangesWithin(ListedEdges)]_vars

\* C1 amended: every status change is one of the listed edges or WAITING -> GIVEN_UP
\* (a start call that fails with the retry budget used up); no other change occurs,
\* in particular none out of SUCCESSFUL or GIVEN_UP and no WAITING -> SUCCESSFUL.
C1_StatusEdges ==
    [][StatusChangesWithin(ListedEdges \cup {<<"WAITING", "GIVEN_UP">>})]_vars

\* a job given up by a failed start call beside a finished one and a retried, running one
C1_Witness ==
    \E a, b, c \in JobIndex :
        /\ encoding_jobs[a].status = "GIVEN_UP"
        /\ encoding_jobs[a].error_messages = <<"The encoding could not be started">>
        /\ encoding_jobs[b].status = "SUCCESSFUL"
        /\ encoding_jobs[c].status = "STARTED" /\ encoding_jobs[c].retry_count > 0

\* C2: once a job is SUCCESSFUL or GIVEN_UP no step changes its status, issues a
\* start call for its encoding or polls its encoding's status.
C2_TerminalAbsorbing ==
    [][\A k \in JobIndex :
          Terminal(encoding_jobs[k])
              => /\ encoding_jobs'[k].status = encoding_jobs[k].status
                 /\ ~Issues("start", encoding_jobs[k].encoding_id)
                 /\ ~Issues("status", encoding_jobs[k].encoding_id)]_vars

\* a third job has just been started again while one job is SUCCESSFUL and one GIVEN_UP
C2_Witness ==
    \E a, b, c \in JobIndex :
        /\ encoding_jobs[a].status = "SUCCESSFUL"
        /\ encoding_jobs[b].status = "GIVEN_UP"
        /\ encoding_jobs[c].status = "STARTED" /\ encoding_jobs[c].retry_count > 0
        /\ calls = <<[op |-> "start", id |-> encoding_jobs[c].encoding_id]>>

\* C3 as stated: after every step a job whose retry_count exceeds max_retries is
\* GIVEN_UP, and no step issues a start call for a job whose retry_count exceeds
\* max_retries.
C3_ExceededIsGivenUp ==
    [][\A k \in JobIndex :
          /\ encoding_jobs'[k].retry_count > max_retries
                => encoding_jobs'[k].status = "GIVEN_UP"
          /\ encoding_jobs[k].retry_count > max_retries
                => ~Issues("start", encoding_jobs[k].encoding_id)]_vars

\* C4 as stated, with every start call succeeding and every failure retryable
\* (retry_count is then the number of re-submissions granted so far): the poll
\* that sees a job fail for the third time, after max_retries re-submissions,
\* marks it GIVEN_UP, so that no job is STARTED after more than max_retries
\* re-submissions.
C4_GivenUpOnThirdFailure ==
    [][\A k \in JobIndex :
          /\ (/\ encoding_jobs[k].status = "STARTED"
              /\ encoding_jobs[k].retry_count = max_retries
              /\ encoding_jobs'[k] # encoding_jobs[k])
                => encoding_jobs'[k].status = "GIVEN_UP"
          /\ encoding_jobs'[k].status = "STARTED"
                => encoding_jobs'[k].retry_count <= max_retries]_vars

\* the step is the start call for job k answered with error code 8004
LimitHitStep(k) == cycle.limit_hit # k /\ cycle'.limit_hit = k

\* the step is the first choice of a start batch after job k's start call was
\* answered 8004, made with free slots
NextOfferStep(k) ==
    /\ cycle.limit_hit = k
    /\ pc = "while" /\ calls' = <<[op |-> "list", id |-> EmptyId]>> /\ pc' # "raised"
    /\ cycle'.queued_encodings_count < target_queue_size

\* a start call answered 8004 leaves retry_count, status (WAITING) and
\* error_messages of its job as they were
LimitHitFrame(k) ==
    LimitHitStep(k) =>
        /\ encoding_jobs[k].status = "WAITING"
        /\ encoding_jobs'[k].status = "WAITING"
        /\ encoding_jobs'[k].retry_count = encoding_jobs[k].retry_count
        /\ encoding_jobs'[k].error_messages = encoding_jobs[k].error_messages

\* C5 as stated: a start call answered 8004 leaves the job's retry_count, status
\* (WAITING) and error_messages unchanged, and the job is in the start batch of
\* the next cycle that has free slots.
C5_OfferedInNextCycle ==
    [][\A k \in JobIndex :
          /\ LimitHitFrame(k)
          /\ NextOfferStep(k) => \E i \in DOMAIN jobs_to_start' : jobs_to_start'[i] = k]_vars

\* C5 amended: a start call answered 8004 leaves the job's retry_count, status
\* (WAITING) and error_messages unchanged; the job is still WAITING when the next
\* start batch is chosen and is in that batch unless the free slots are all taken
\* by WAITING jobs that precede it in the list.
C5_LimitHitKeepsJob ==
    [][\A k \in JobIndex :
          /\ LimitHitFrame(k)
          /\ NextOfferStep(k) =>
                /\ encoding_jobs[k].status = "WAITING"
                /\ \/ \E i \in DOMAIN jobs_to_start' : jobs_to_start'[i] = k
                   \/ /\ Len(jobs_to_start') = free_slots(cycle'.queued_encodings_count)
                      /\ \A i \in DOMAIN jobs_to_start' :
                            /\ jobs_to_start'[i] < k
                            /\ encoding_jobs[jobs_to_start'[i]].status = "WAITING"]_vars

\* a job whose start call has been answered 8004 for at least the second time is
\* still WAITING with its retry budget untouched
C5_Witness ==
    \E k \in JobIndex :
        /\ cycle.limit_hit = k
        /\ calls = <<[op |-> "start", id |-> encoding_jobs[k].encoding_id]>>
        /\ encoding_jobs[k].status = "WAITING"
        /\ encoding_jobs[k].retry_count = 0

\* C6: the remote QUEUED count, raised only by the dispatcher's successful start
\* calls and lowered only by the service, never exceeds target_queue_size.
C6_QueueBounded == queued <= target_queue_size

\* the queue has been filled to the target by a start batch
C6_Witness ==
    /\ queued = target_queue_size
    /\ cycle.started > 0
    /\ cycle.queued_encodings_count + cycle.started = target_queue_size

\* the last step issued a start call
StartIssued == \E i \in DOMAIN calls : calls[i].op = "start"

\* C7: start calls are issued only in a cycle that read queued_count below
\* target_queue_size, at most target_queue_size - queued_count of them; a batch
\* chosen at queued_count = 0 with at least target_queue_size (3) WAITING jobs
\* and no start error ends with exactly 3 jobs started.
C7_StartsWithinFreeSlots ==
    /\ (pc = "start" \/ StartIssued) =>
          /\ cycle.queued_encodings_count < target_queue_size
          /\ cycle.attempts <= target_queue_size - cycle.queued_encodings_count
          /\ Len(jobs_to_start) + cycle.attempts <= target_queue_size - cycle.queued_encodings_count
    /\ StartIssued => cycle.attempts >= 1
    /\ (/\ StartIssued
        /\ pc \in {"while", "poll"}
        /\ cycle.queued_encodings_count = 0
        /\ cycle.waiting >= target_queue_size
        /\ cycle.started = cycle.attempts)
          => /\ cycle.started = target_queue_size
             /\ Cardinality({k \in JobIndex : encoding_jobs[k].status = "STARTED"})
                    >= target_queue_size

\* a full batch of three has just been started from an empty queue
C7_Witness ==
    /\ StartIssued
    /\ pc = "poll"
    /\ cycle.queued_encodings_count = 0
    /\ cycle.waiting >= target_queue_size
    /\ cycle.started = target_queue_size

\* the WAITING jobs at list positions below k
WaitingBefore(k) == {i \in JobIndex : i < k /\ encoding_jobs[i].status = "WAITING"}

\* get_jobs_to_start(n), for every limit n from 0 to MaxLimit, holds at most n
\* jobs, all of them WAITING: the first WAITING jobs of the list, in list order
FirstWaitingJobs ==
    \A n \in 0..MaxLimit :
        LET r == get_jobs_to_start(n)
            waiting == {k \in JobIndex : encoding_jobs[k].status = "WAITING"}
        IN  /\ Len(r) <= n
            /\ Len(r) = Min(n, Cardinality(waiting))
            /\ \A i \in DOMAIN r :
                  /\ r[i] \in waiting
                  /\ Cardinality(WaitingBefore(r[i])) = i - 1

\* the step is main's choice of a start batch by get_jobs_to_start
ChoosesBatch ==
    /\ pc = "while"
    /\ pc' = "start"
    /\ jobs_to_start' = get_jobs_to_start(free_slots(cycle'.queued_encodings_count))

\* C10: in every state of the job list and for every limit n >= 0,
\* get_jobs_to_start(n) returns at most n jobs, only WAITING ones, and they are
\* the first WAITING jobs in list order; choosing a batch modifies no job.
C10_FirstWaitingJobs ==
    /\ []FirstWaitingJobs
    /\ [][ChoosesBatch => encoding_jobs' = encoding_jobs]_vars

\* a batch was chosen that skips a job which is not WAITING and leaves out a
\* WAITING job for lack of free slots
C10_Witness ==
    /\ pc = "start"
    /\ calls = <<[op |-> "list", id |-> EmptyId]>>
    /\ jobs_to_start = get_jobs_to_start(free_slots(cycle.queued_encodings_count))
    /\ Head(jobs_to_start) > 1
    /\ \E k \in JobIndex :
          /\ encoding_jobs[k].status = "WAITING"
          /\ \A i \in DOMAIN jobs_to_start : jobs_to_start[i] # k

\* the remote QUEUED count is below target_queue_size infinitely often
QueueFreeAgain == []<>(queued < target_queue_size)

AllSuccessful == \A k \in JobIndex : encoding_jobs[k].status = "SUCCESSFUL"

AllTerminal == \A k \in JobIndex : Terminal(encoding_jobs[k])

\* C8: with no failing call, every started encoding eventually FINISHED and the
\* queue below target infinitely often, main's loop exits with every job
\* SUCCESSFUL and nothing logged by log_failed_jobs, and no job is ever GIVEN_UP.
C8_AllSuccessful ==
    /\ QueueFreeAgain => <>(pc = "done" /\ AllSuccessful /\ failed_log = <<>>)
    /\ [](\A k \in JobIndex : encoding_jobs[k].status # "GIVEN_UP")

\* main has left its loop with every job SUCCESSFUL and nothing logged
C8_Witness == pc = "done" /\ AllSuccessful /\ failed_log = <<>>

C11_FinishedIffAllTerminal ==
    /\ [](all_jobs_finished <=> AllTerminal)
    /\ [](all_jobs_finished <=>
             ~\E k \in JobIndex : encoding_jobs[k].status \in {"WAITING", "STARTED"})
    /\ [](pc = "done" => AllTerminal)
    /\ [][/\ (pc = "while" /\ pc' = "done") => AllTerminal
          /\ (pc = "while" /\ Issues("list", EmptyId)) => ~AllTerminal
          /\ (pc = "while" /\ AllTerminal /\ ~Dequeue) => pc' = "done"]_vars

\* the last poll of a cycle has left one job SUCCESSFUL, one GIVEN_UP and none
\* WAITING or STARTED: main is about to leave its loop
C11_Witness ==
    /\ pc = "while"
    /\ all_jobs_finished
    /\ \E i \in DOMAIN calls : calls[i].op = "status"
    /\ \E a, b \in JobIndex :
          encoding_jobs[a].status = "SUCCESSFUL" /\ encoding_jobs[b].status = "GIVEN_UP"

\* C12 as stated: after construction JobDispatcher holds number_of_encodings (7)
\* jobs, each WAITING with empty encoding_id, retry_count 0 and no error
\* messages, and the number of jobs never changes afterwards.
C12_SevenWaitingJobs ==
    /\ Len(encoding_jobs) = number_of_encodings
    /\ \A k \in JobIndex :
          /\ encoding_jobs[k].status = "WAITING"
          /\ encoding_jobs[k].encoding_id = EmptyId
          /\ encoding_jobs[k].retry_count = 0
          /\ encoding_jobs[k].error_messages = <<>>
    /\ [][Len(encoding_jobs') = Len(encoding_jobs)]_vars

\* C13 as stated: a job whose status is not WAITING is never WAITING again.
C13_NeverWaitingAgain ==
    [][\A k \in JobIndex :
          encoding_jobs[k].status # "WAITING" => encoding_jobs'[k].status # "WAITING"]_vars

\* the position of a status on the path WAITING -> STARTED -> {SUCCESSFUL | GIVEN_UP}
StatusRank(status) ==
    CASE status = "WAITING" -> 0
      [] status = "STARTED" -> 1
      [] OTHER -> 2

\* C13 amended: a job's status goes back to WAITING only from STARTED, in the
\* poll of its own encoding that grants it a retry (retry_count is incremented,
\* encoding_id and error_messages are kept); a SUCCESSFUL or GIVEN_UP job is never
\* WAITING again, and every other status change moves forward along
\* WAITING -> STARTED -> {SUCCESSFUL | GIVEN_UP}.
C13_WaitingAgainOnlyByRetry ==
    [][\A k \in JobIndex :
          /\ (encoding_jobs[k].status # "WAITING" /\ encoding_jobs'[k].status = "WAITING")
                => /\ encoding_jobs[k].status = "STARTED"
                   /\ Issues("status", encoding_jobs[k].encoding_id)
                   /\ encoding_jobs'[k].retry_count = encoding_jobs[k].retry_count + 1
                   /\ encoding_jobs'[k].encoding_id = encoding_jobs[k].encoding_id
                   /\ encoding_jobs'[k].error_messages = encoding_jobs[k].error_messages
          /\ Terminal(encoding_jobs[k]) => encoding_jobs'[k].status # "WAITING"
          /\ (/\ encoding_jobs'[k].status # encoding_jobs[k].status
              /\ encoding_jobs'[k].status # "WAITING")
                => StatusRank(encoding_jobs'[k].status) > StatusRank(encoding_jobs[k].status)]_vars

\* the poll of a started job has just set it back to WAITING for a retry
C13_Witness ==
    \E k \in JobIndex :
        /\ encoding_jobs[k].status = "WAITING"
        /\ encoding_jobs[k].retry_count > 0
        /\ calls = <<[op |-> "status", id |-> encoding_jobs[k].encoding_id]>>
        /\ encoding_jobs[k].encoding_id # EmptyId

\* the step marks job k GIVEN_UP
GivenUpStep(k) ==
    encoding_jobs[k].status # "GIVEN_UP" /\ encoding_jobs'[k].status = "GIVEN_UP"

\* C14: a step that gives a job up (permanent error, or retry budget used up by a
\* failed encoding or a failed start call) records one message in that job's
\* error_messages and leaves every other job's record as it was; main goes on:
\* it does not leave its loop by that step, the rest of the start batch is still
\* to be started and the rest of the poll list still to be polled, and the poll
\* list entered after the batch holds every STARTED job.
C14_GiveUpTouchesOneJob ==
    [][\A k \in JobIndex :
          GivenUpStep(k) =>
              /\ \A j \in JobIndex \ {k} : encoding_jobs'[j] = encoding_jobs[j]
              /\ Len(encoding_jobs'[k].error_messages)
                     = Len(encoding_jobs[k].error_messages) + 1
              /\ encoding_jobs'[k].encoding_id # EmptyId
              /\ pc' \in {"start", "poll", "while"}
              /\ pc = "start" =>
                    /\ jobs_to_start' = Tail(jobs_to_start)
                    /\ jobs_to_start' = <<>> => started_jobs' = get_started_jobs(encoding_jobs')
              /\ pc = "poll" => started_jobs' = Tail(started_jobs)]_vars

\* a failed start call has just given a job up in the middle of a start batch,
\* after a failed encoding had given another job up
C14_Witness ==
    \E a, b \in JobIndex :
        /\ pc = "start"
        /\ jobs_to_start # <<>>
        /\ encoding_jobs[a].status = "GIVEN_UP"
        /\ encoding_jobs[a].error_messages = <<"The encoding could not be started">>
        /\ calls = <<[op |-> "start", id |-> encoding_jobs[a].encoding_id]>>
        /\ encoding_jobs[b].status = "GIVEN_UP"
        /\ encoding_jobs[b].error_messages = <<"task errors">>

\* the step is an iteration of _start_encodings on job k that no exception ends
StartsJob(k) ==
    pc = "start" /\ Head(jobs_to_start) = k /\ pc' # "raised" /\ ~Dequeue

\* C15: a job's encoding_id is empty until the step that creates its encoding
\* and never changes once set; a create call is issued for a job only while its
\* encoding_id is empty (so at most one encoding is created per job), and every
\* start call for a job, first or retried, carries the job's one encoding_id.
C15_EncodingCreatedOnce ==
    /\ [](\A k \in JobIndex :
             encoding_jobs[k].encoding_id = EmptyId
                => encoding_jobs[k].status = "WAITING" /\ encoding_jobs[k].retry_count = 0)
    /\ [][\A k \in JobIndex :
            /\ encoding_jobs[k].encoding_id # EmptyId
                  => encoding_jobs'[k].encoding_id = encoding_jobs[k].encoding_id
            /\ (encoding_jobs[k].encoding_id = EmptyId /\ encoding_jobs'[k].encoding_id # EmptyId)
                  => Issues("create", encoding_jobs[k].encoding_name)
            /\ Issues("create", encoding_jobs[k].encoding_name)
                  => /\ encoding_jobs[k].encoding_id = EmptyId
                     /\ encoding_jobs'[k].encoding_id # EmptyId \/ pc' = "raised"
            /\ StartsJob(k)
                  => /\ encoding_jobs'[k].encoding_id # EmptyId
                     /\ Issues("start", encoding_jobs'[k].encoding_id)
                     /\ \A i \in DOMAIN calls' :
                           calls'[i].op = "start" => calls'[i].id = encoding_jobs'[k].encoding_id
                     /\ encoding_jobs[k].encoding_id # EmptyId
                           => \A i \in DOMAIN calls' : calls'[i].op # "create"]_vars

\* a job's start call has just been issued again, after two retries, for the
\* encoding created at its first attempt, and no create call came with it
C15_Witness ==
    \E k \in JobIndex :
        /\ encoding_jobs[k].retry_count >= 2
        /\ encoding_jobs[k].status = "STARTED"
        /\ encoding_jobs[k].encoding_id = encoding_jobs[k].encoding_name
        /\ calls = <<[op |-> "start", id |-> encoding_jobs[k].encoding_id]>>
        /\ cycle.attempts = 1

\* s is a prefix of t
IsPrefix(s, t) == Len(s) <= Len(t) /\ SubSeq(t, 1, Len(s)) = s

\* C16: no step removes or changes an entry of a job's error_messages, and in
\* every state the list holds exactly one entry if the job is GIVEN_UP and none
\* otherwise (so a SUCCESSFUL job has no error messages).
C16_OneMessageIffGivenUp ==
    /\ [](\A k \in JobIndex :
             Len(encoding_jobs[k].error_messages)
                = IF encoding_jobs[k].status = "GIVEN_UP" THEN 1 ELSE 0)
    /\ [][\A k \in JobIndex :
            IsPrefix(encoding_jobs[k].error_messages, encoding_jobs'[k].error_messages)]_vars

\* a job given up by a failed encoding holds one message, a job that succeeded
\* after a retry holds none
C16_Witness ==
    \E a, b \in JobIndex :
        /\ encoding_jobs[a].status = "GIVEN_UP"
        /\ encoding_jobs[a].error_messages = <<"task errors">>
        /\ encoding_jobs[a].retry_count > 0
        /\ encoding_jobs[b].status = "SUCCESSFUL"
        /\ encoding_jobs[b].retry_count > 0
        /\ encoding_jobs[b].error_messages = <<>>

\* what source number i of the process defines for each key
InputSource(i) ==
    <<inputs.argv, inputs.local_file.items, inputs.environ, inputs.home_file.items>>[i]

\* the sources, in priority order, that define a non-empty value for key
DefiningSources(key) ==
    {i \in DOMAIN ConfigSources :
        key \in DOMAIN InputSource(i) /\ InputSource(i)[key] # ""}

\* C17 as stated: _get_or_throw_exception(key) returns the value of the first
\* source, in the order command line, local properties file, environment,
\* home-directory properties file, that defines a non-empty value for key
\* (sources holding an empty value are skipped), and raises MissingArgumentError
\* naming key if no source defines key.
C17_FirstNonEmptySourceWins ==
    lookup.key # "" =>
        /\ DefiningSources(lookup.key) # {} =>
              LET i == CHOOSE i \in DefiningSources(lookup.key) :
                           \A j \in DefiningSources(lookup.key) : i <= j
              IN  /\ lookup.raised = ""
                  /\ lookup.value = InputSource(i)[lookup.key]
                  /\ lookup.source = ConfigSources[i]
        /\ (\A i \in DOMAIN ConfigSources : lookup.key \notin DOMAIN InputSource(i)) =>
              /\ lookup.raised = "MissingArgumentError"
              /\ lookup.value = ""

\* C18 as stated, for multi_codec_encoding: once one of the three encodings run
\* in the worker pool has been seen in status ERROR, no start call is issued for
\* the DASH or the HLS manifest and main does not end normally (the script
\* terminates through the raised exception).
C18_NoManifestAfterFailure ==
    (\E e \in Encodings : execution[e].task = "ERROR") =>
        /\ \A m \in Manifests : execution[m].starts = 0
        /\ main_pc # "done"

\* the step is a step of the worker that executes encoding e
WorkerStep(e) == execution'[e] # execution[e]

\* C19 as stated: the start call for the DASH manifest is issued only after all
\* three workers have ended, each having observed FINISHED or ERROR for its own
\* encoding; a step of a worker changes the record of its own encoding only,
\* and nothing of main or of another worker.
C19_ForkJoin ==
    /\ [](execution["dash"].starts > 0 =>
             \A e \in Encodings :
                 Ended(e) /\ execution[e].task \in {"FINISHED", "ERROR"})
    /\ [][\A e \in Encodings :
            WorkerStep(e) =>
                /\ \A f \in DOMAIN execution \ {e} : execution'[f] = execution[f]
                /\ main_pc' = main_pc /\ main_pc = "pool"]_vars

\* the step is a status call of execution e that was answered
Polled(e) ==
    execution'[e].polls = execution[e].polls + 1 /\ execution'[e].pc # "api_error"

\* C20: in fixed_bitrate_ladder and per_title_encoding, _execute_encoding issues
\* its one start call before any status call and sleeps before every status
\* call; after a status other than FINISHED and ERROR it polls again (sleep,
\* then status), after FINISHED or ERROR it does not; it returns only with
\* FINISHED observed, and its raise statement is reached only with ERROR
\* observed and the task's errors logged.
C20_StartThenPollUntilEnded ==
    /\ [](\A e \in DOMAIN execution :
             /\ execution[e].starts <= 1
             /\ execution[e].polls > 0 => execution[e].starts = 1
             /\ execution[e].sleeps > 0 => execution[e].starts = 1
             /\ execution[e].polls <= execution[e].sleeps
             /\ execution[e].sleeps <= execution[e].polls + 1
             /\ execution[e].pc = "status" <=> execution[e].sleeps = execution[e].polls + 1
             /\ execution[e].pc = "returned" => execution[e].task = "FINISHED"
             /\ execution[e].pc \in {"raise", "raised"}
                   => execution[e].task = "ERROR" /\ execution[e].logged
             /\ execution[e].logged => execution[e].task = "ERROR"
             /\ main_pc = "done" => execution[e].pc = "returned")
    /\ [][\A e \in DOMAIN execution :
            Polled(e) =>
                /\ execution'[e].task \notin {"FINISHED", "ERROR"}
                      <=> execution'[e].pc = "sleep"
                /\ execution'[e].task = "FINISHED" <=> execution'[e].pc = "returned"
                /\ execution'[e].task = "ERROR" <=> execution'[e].pc = "log"]_vars

\* _execute_encoding has raised after its third poll, the first to answer ERROR,
\* having slept before each poll and logged the task's errors
C20_Witness ==
    \E e \in DOMAIN execution :
        /\ e \in SingleScripts
        /\ execution[e].pc = "raised"
        /\ execution[e].task = "ERROR"
        /\ execution[e].logged
        /\ execution[e].starts = 1
        /\ execution[e].polls = 3
        /\ execution[e].sleeps = 3
        /\ main_pc = "raised"

\* the input -> output pairs the module documentation lists
DocumentedPairs ==
    {<<"DolbyVision", "DolbyVision">>, <<"DolbyVision", "HDR10">>,
     <<"HDR10", "HDR10">>, <<"HDR10", "HLG">>,
     <<"HLG", "HLG">>, <<"HLG", "HDR10">>,
     <<"SDR", "HDR10">>, <<"SDR", "HLG">>}

\* RenditionDefinition() has been called and did not raise
Accepted == rendition_definition.constructed /\ rendition_definition.raised = ""

BudgetExhausted(job) == job.retry_count >= max_retries

\* C22 as stated: a status poll of a STARTED job answered FINISHED makes the job
\* SUCCESSFUL; answered ERROR with a non-retryable hint or with the job's retry
\* budget exhausted it makes the job GIVEN_UP, appends the error text and leaves
\* retry_count; answered any other ERROR it adds one to retry_count, makes the
\* job WAITING and appends nothing.
C22_PollOutcomes ==
    [][\A task \in Tasks :
          UpdateEncodingJob(task) =>
              LET job   == encoding_jobs[Head(started_jobs)]
                  after == encoding_jobs'[Head(started_jobs)]
              IN  /\ job.status = "STARTED"
                  /\ task.status = "FINISHED" => after = [job EXCEPT !.status = "SUCCESSFUL"]
                  /\ (task.status = "ERROR" /\ (~is_retryable_error(task) \/ BudgetExhausted(job)))
                        => /\ after.status = "GIVEN_UP"
                           /\ Len(after.error_messages) = Len(job.error_messages) + 1
                           /\ after.retry_count = job.retry_count
                  /\ (task.status = "ERROR" /\ is_retryable_error(task) /\ ~BudgetExhausted(job))
                        => after = [job EXCEPT !.retry_count = @ + 1, !.status = "WAITING"]]_vars

\* the start call of the step failed with an error other than 8004
FailedStart(answer) == answer.raised /\ ~LimitHit(answer) /\ StartEncoding(answer)

\* the rule of _start_encodings for a failed start call of `job`, leaving it as `after`
CountedAgainstBudget(job, after) ==
    /\ after.retry_count = job.retry_count + 1
    /\ after.status = "GIVEN_UP" <=> after.retry_count > max_retries
    /\ after.status = "GIVEN_UP" =>
          after.error_messages = Append(job.error_messages, "The encoding could not be started")
    /\ after.status # "GIVEN_UP" =>
          after.status = "WAITING" /\ after.error_messages = job.error_messages

\* C23 as stated: a start call that fails with an error other than 8004 adds
\* one to the job's retry_count; the job is GIVEN_UP with one message appended
\* iff the new retry_count exceeds max_retries, else it stays WAITING with its
\* messages unchanged; and a job is given up exactly on its failed start
\* attempt number max_retries + 1.
C23_GivenUpOnAttemptMaxRetriesPlusOne ==
    [][\A answer \in StartAnswers :
          FailedStart(answer) =>
              LET k == Head(jobs_to_start)
              IN  /\ CountedAgainstBudget(encoding_jobs[k], encoding_jobs'[k])
                  /\ encoding_jobs'[k].status = "GIVEN_UP"
                        <=> start_history'[k].failed = max_retries + 1]_vars

\* C23 amended: the same rule; and a job none of whose encodings was retried
\* after an ERROR is given up exactly on its failed start attempt number
\* max_retries + 1, any other job on that attempt or an earlier one.
C23_FailedStartCountsAgainstBudget ==
    [][\A answer \in StartAnswers :
          FailedStart(answer) =>
              LET k == Head(jobs_to_start)
              IN  /\ CountedAgainstBudget(encoding_jobs[k], encoding_jobs'[k])
                  /\ encoding_jobs[k].retry_count = start_history[k].failed =>
                        (encoding_jobs'[k].status = "GIVEN_UP"
                            <=> start_history'[k].failed = max_retries + 1)
                  /\ start_history'[k].failed <= max_retries + 1]_vars

\* a job was given up on its third failed start attempt, another one on its
\* first, after retried encoding failures
C23_Witness ==
    \E a, b \in JobIndex :
        /\ encoding_jobs[a].status = "GIVEN_UP" /\ start_history[a].failed = max_retries + 1
        /\ encoding_jobs[a].error_messages = <<"The encoding could not be started">>
        /\ encoding_jobs[b].status = "GIVEN_UP" /\ start_history[b].failed = 1
        /\ encoding_jobs[b].error_messages = <<"The encoding could not be started">>

\* main's step leaves job j as it is and makes no create and no start call for it
Untouched(j) ==
    /\ encoding_jobs'[j] = encoding_jobs[j]
    /\ ~Issues("create", encoding_jobs[j].encoding_name)
    /\ ~Issues("start", encoding_jobs[j].encoding_name)

\* C24: a start call answered 8004 ends the start batch: the jobs after it in
\* the batch are WAITING and get no start call, no encoding and no field
\* changed by that step, the loop of _start_encodings is left, and until main
\* is back at the head of its loop no WAITING job is touched, so these jobs are
\* WAITING when the next batch is chosen.
C24_LimitHitAbortsBatch ==
    [][/\ \A answer \in StartAnswers :
             (LimitHit(answer) /\ StartEncoding(answer)) =>
                 /\ jobs_to_start' = <<>> /\ pc' \in {"poll", "while"}
                 /\ \A i \in DOMAIN Tail(jobs_to_start) :
                       /\ encoding_jobs'[Tail(jobs_to_start)[i]].status = "WAITING"
                       /\ Untouched(Tail(jobs_to_start)[i])
       /\ pc = "poll" =>
             /\ jobs_to_start' = <<>> /\ pc' # "start"
             /\ \A j \in JobIndex : encoding_jobs[j].status = "WAITING" => Untouched(j)]_vars

\* the start call of job 1 was answered 8004 in a batch of all jobs; main is
\* back at the head of its loop and job 2 is WAITING without an encoding
C24_Witness ==
    /\ pc = "while"
    /\ cycle.limit_hit = 1 /\ cycle.attempts = 1
    /\ cycle.queued_encodings_count = 0 /\ cycle.waiting = Len(encoding_jobs)
    /\ encoding_jobs[1].encoding_id # EmptyId
    /\ encoding_jobs[2] = EncodingJob(2)

\* the step is a remote call of main that raises outside the try block
RaisesStep == pc # "raised" /\ pc' = "raised"

\* C25: a remote error while an encoding is created, the queued encodings are
\* counted or a status is polled leaves main at once: the step changes no job
\* (no retry_count, no status, no message) and logs nothing, the job concerned
\* is WAITING without an encoding (creation) or STARTED (poll), and main does
\* nothing afterwards.
C25_UnguardedErrorEndsBatch ==
    [][/\ RaisesStep =>
             /\ encoding_jobs' = encoding_jobs /\ failed_log' = failed_log
             /\ pc = "start" =>
                   /\ Issues("create", encoding_jobs[Head(jobs_to_start)].encoding_name)
                   /\ encoding_jobs'[Head(jobs_to_start)].status = "WAITING"
                   /\ encoding_jobs'[Head(jobs_to_start)].encoding_id = EmptyId
             /\ pc = "poll" =>
                   /\ Issues("status", encoding_jobs[Head(started_jobs)].encoding_id)
                   /\ encoding_jobs'[Head(started_jobs)].status = "STARTED"
             /\ pc = "while" => Issues("list", EmptyId)
       /\ pc = "raised" =>
             /\ pc' = "raised"
             /\ <<encoding_jobs, calls, failed_log>>' = <<encoding_jobs, calls, failed_log>>]_vars

\* main was left by an error of a status poll after a job had used retry budget:
\* the polled job is STARTED, no job is GIVEN_UP
C25_Witness ==
    /\ pc = "raised"
    /\ \E k \in JobIndex :
          /\ calls = <<[op |-> "status", id |-> encoding_jobs[k].encoding_id]>>
          /\ encoding_jobs[k].status = "STARTED" /\ encoding_jobs[k].retry_count = 1
    /\ \A k \in JobIndex : encoding_jobs[k].status # "GIVEN_UP"

\* the step is a status call of the call that expects e, answered with a task
LivePolled(e) ==
    execution'[e].polls = execution[e].polls + 1 /\ execution'[e].pc # "api_error"

\* C26: in rtmp_live_encoding, a call of _wait_until_encoding_is_in_state ends,
\* after at most max_attempts = 60 status calls; a status call answered with the
\* expected status makes it return at once, one answered ERROR makes it raise
\* 'Encoding failed' (after logging), any other answer makes it sleep and poll
\* again, up to the timeout exception after 60 such answers; it ends in no
\* other way unless a remote call itself raises.  main issues live.stop only
\* after the first call returned with RUNNING observed, and follows it with the
\* call that expects FINISHED.
C26_BoundedWait ==
    /\ [](\A e \in ExpectedStatus :
             /\ execution[e].polls <= max_attempts
             /\ execution[e].pc = "returned" => execution[e].task = e
             /\ execution[e].pc \in {"log", "raise", "raised"} => execution[e].task = "ERROR"
             /\ execution[e].pc \in {"timeout", "timed_out"} =>
                   /\ execution[e].polls = max_attempts
                   /\ execution[e].task \notin {e, "ERROR"}
             /\ execution[e].pc = "api_error" => main_pc = "raised")
    /\ [](execution["FINISHED"].starts > 0 =>
             /\ execution["RUNNING"].pc = "returned" /\ execution["RUNNING"].task = "RUNNING"
             /\ execution["FINISHED"].starts = 1
             /\ main_pc \in {"wait_finished", "done", "raised"})
    /\ [](main_pc = "wait_finished" => execution["FINISHED"].pc \notin {"idle"})
    /\ [][\A e \in ExpectedStatus :
            LivePolled(e) =>
                /\ execution'[e].task = e <=> execution'[e].pc = "returned"
                /\ execution'[e].task = "ERROR" <=> execution'[e].pc = "log"
                /\ execution'[e].task \notin {e, "ERROR"} <=> execution'[e].pc = "sleep"]_vars
    /\ \A e \in ExpectedStatus : (main_pc = WaitsFor(e)) ~> LiveEnded(e)

\* after live.stop, the call that expects FINISHED has raised its timeout
\* exception: 60 status calls, the last one answered RUNNING
C26_Witness ==
    /\ execution["RUNNING"].pc = "returned" /\ execution["RUNNING"].polls > 1
    /\ execution["FINISHED"].pc = "timed_out"
    /\ execution["FINISHED"].polls = max_attempts
    /\ execution["FINISHED"].sleeps = max_attempts
    /\ execution["FINISHED"].task = "RUNNING"
    /\ main_pc = "raised"

\* the step is a status poll of job k answered with a retryable ERROR
RetryableFailure(k) ==
    /\ pc = "poll" /\ Head(started_jobs) = k
    /\ \E task \in Tasks : is_retryable_error(task) /\ UpdateEncodingJob(task)

\* the step is a start call of job k that failed with an error other than 8004
StartFailure(k) ==
    /\ pc = "start" /\ Head(jobs_to_start) = k
    /\ \E answer \in StartAnswers : FailedStart(answer)

\* C27: whatever the service answers, a job's retry_count never exceeds
\* max_retries + 2 and no more than max_retries + 2 of its start calls succeed;
\* a step that changes retry_count adds one to it and is a failed start call
\* (not 8004) or a poll answered with a retryable ERROR of that job.
C27_RetryCountBounded ==
    /\ [](\A k \in JobIndex :
             /\ encoding_jobs[k].retry_count <= max_retries + 2
             /\ start_history[k].succeeded <= max_retries + 2)
    /\ [][\A k \in JobIndex :
            encoding_jobs'[k].retry_count # encoding_jobs[k].retry_count =>
                /\ encoding_jobs'[k].retry_count = encoding_jobs[k].retry_count + 1
                /\ StartFailure(k) \/ RetryableFailure(k)]_vars

\* one job has reached retry_count max_retries + 2, another one has been
\* started successfully max_retries + 2 times
C27_Witness ==
    \E a, b \in JobIndex :
        /\ encoding_jobs[a].retry_count = max_retries + 2
        /\ start_history[b].succeeded = max_retries + 2

\* C28: a job that is STARTED, SUCCESSFUL or GIVEN_UP has an encoding; the jobs
\* the poll loop is still to ask the status of (the rest of its list, which
\* stays as it is when a status call raises) are STARTED and have an encoding,
\* and no status call is made with the empty id.
C28_PolledJobsAreStarted ==
    /\ \A k \in JobIndex :
          encoding_jobs[k].status # "WAITING" => encoding_jobs[k].encoding_id # EmptyId
    /\ \A i \in DOMAIN started_jobs :
          /\ pc \in {"poll", "raised"}
          /\ encoding_jobs[started_jobs[i]].status = "STARTED"
          /\ encoding_jobs[started_jobs[i]].encoding_id # EmptyId
    /\ \A i \in DOMAIN calls :
          calls[i].op = "status" =>
              /\ calls[i].id # EmptyId
              /\ pc \in {"poll", "while", "raised"}
              /\ \E k \in JobIndex : encoding_jobs[k].encoding_id = calls[i].id

\* the poll loop has asked the status of a job, which ended by the answer, and
\* is to ask that of another one, while a third job is WAITING with its encoding
C28_Witness ==
    /\ pc = "poll" /\ started_jobs # <<>>
    /\ \E i \in DOMAIN calls : calls[i].op = "status"
    /\ \E k \in JobIndex : Terminal(encoding_jobs[k]) /\ calls = <<[op |-> "status", id |-> encoding_jobs[k].encoding_id]>>
    /\ \E k \in JobIndex : encoding_jobs[k].status = "WAITING" /\ encoding_jobs[k].encoding_id # EmptyId

\* C29: a status poll answered ERROR without error detail gives the job up at
\* once, with one entry appended and retry_count as it was, whatever
\* retry_count is; a poll sends a job back to WAITING only if it is answered
\* ERROR with an error detail whose retry hint is not NO_RETRY.
C29_NoDetailIsPermanent ==
    [][\A task \in Tasks :
          UpdateEncodingJob(task) =>
              LET job   == encoding_jobs[Head(started_jobs)]
                  after == encoding_jobs'[Head(started_jobs)]
              IN  /\ (task.status = "ERROR" /\ task.error = "absent") =>
                        /\ ~is_retryable_error(task)
                        /\ after = [job EXCEPT !.status = "GIVEN_UP",
                                                !.error_messages = Append(@, "task errors")]
                  /\ after.status = "WAITING" =>
                        /\ task.status = "ERROR"
                        /\ task.error \notin {"absent", "NO_RETRY"}]_vars

\* a job that had been retried once was given up by a poll, with its retry
\* budget not used up
C29_Witness ==
    \E k \in JobIndex :
        /\ encoding_jobs[k].status = "GIVEN_UP"
        /\ encoding_jobs[k].retry_count = 1
        /\ start_history[k].failed = 0
        /\ encoding_jobs[k].error_messages = <<"task errors">>
        /\ calls = <<[op |-> "status", id |-> encoding_jobs[k].encoding_id]>>

\* C30: a status poll of a STARTED job answered with a status other than
\* FINISHED and ERROR changes no field of any job; and a job whose encoding never
\* reports FINISHED or ERROR (here the first job) stays STARTED once it is
\* STARTED, and the condition of main's loop never becomes false while it is:
\* main does not reach the end of its loop.
C30_PendingJobKeepsMainLooping ==
    /\ [][\A task \in PendingTasks :
            UpdateEncodingJob(task) =>
                /\ encoding_jobs[Head(started_jobs)].status = "STARTED"
                /\ encoding_jobs' = encoding_jobs]_vars
    /\ [][encoding_jobs[1].status = "STARTED" =>
            /\ encoding_jobs'[1] = encoding_jobs[1]
            /\ pc' # "done"]_vars
    /\ [](encoding_jobs[1].status = "STARTED" => ~all_jobs_finished /\ pc # "done")

\* every other job has ended and the remote queue is empty; main has polled
\* the first job once more and is back at the head of its loop, the job STARTED
C30_Witness ==
    /\ pc = "while" /\ queued = 0
    /\ encoding_jobs[1].status = "STARTED"
    /\ calls = <<[op |-> "status", id |-> encoding_jobs[1].encoding_id]>>
    /\ \A k \in JobIndex \ {1} : Terminal(encoding_jobs[k])
    /\ \E k \in JobIndex \ {1} : encoding_jobs[k].status = "GIVEN_UP"

====
